---- MODULE Spec2Model ----
(***************************************************************************)
(* Identity & access core of svc-users-python: the token issuer and        *)
(* verifier (app/services/auth_service.py), the authentication and         *)
(* permission dependencies (app/dependencies), and the account lifecycle   *)
(* against the Organizations directory (app/services/account_service.py,   *)
(* app/routers/v1/accounts.py).                                            *)
(*                                                                         *)
(* Time is in epoch seconds.  A token is three segments (header, payload,  *)
(* signature); a segment either decodes (ok) or is undecodable text.  A    *)
(* signature value is the triple (key, header, payload) it was made over;  *)
(* RS256 is taken to be unforgeable.                                       *)
(***************************************************************************)
EXTENDS Integers, Sequences, FiniteSets, TLC

VARIABLES
    now,        \* true epoch time (seconds)
    tz,         \* the process's local time zone
    jtiSeq,     \* source of fresh jti values (uuid7)
    issued,     \* the token results the client holds (the latest one handed out)
    ticks,      \* number of clock advances so far
    last,       \* the request to a protected endpoint being answered, and its response
    authz,      \* the last call of the bare permission checker and its result
    accounts,   \* rows of table accounts
    directory,  \* Organizations service: (organization, employee) -> hasAccount
    req,        \* the in-flight account requests, per worker slot
    started,    \* number of account and role management requests received so far
    roles,      \* rows of tables roles and role_permissions: role id -> name, permissions
    hashes,     \* the calls of hash_password so far: plaintext and returned hash
    checked,    \* the last call of verify_password and its result
    keys,       \* the key caches of the process, and the threads inside the key loaders
    settings    \* the Settings the process loaded from its environment

vars == <<now, tz, jtiSeq, issued, ticks, last, authz, accounts, directory, req, started, roles,
          hashes, checked, keys, settings>>

(*------------------------------ bounds ----------------------------------*)
MaxIssued == 1
MaxTicks == 2
MaxRequired == 2
MaxStarted == 3
MaxHashed == 2
MaxCalls == 4
\* The epoch second at which the modelled runs start.
Epoch0 == 1000000

(*----------------------------- settings ---------------------------------*)
jwt_algorithm == "RS256"
jwt_issuer == "https://api.example.com"
jwt_audience == "https://api.example.com"
jwt_expiration_days == 7
jwt_kid == "auth-2025-10-15"
RegistrationMinutes == 15

\* Settings() when the environment sets none of the optional values.
DefaultSettings == [jwt_expiration_days |-> jwt_expiration_days]

\* The key pair configured in jwt_private_key / jwt_public_key.
LoadedKey == "K1"
\* A key pair the service does not hold.
ForeignKey == "K2"

\* timedelta(days=1) and timedelta(minutes=1) in the seconds of .timestamp()
SecondsPerMinute == 60
SecondsPerDay == 24 * 60 * SecondsPerMinute

\* A local time zone: its UTC offset in seconds is base, and base + shift from
\* the wall-clock reading change_at on (a daylight-saving change; shift 0: none).
Zone(base, change_at, shift) ==
    [base |-> base, change_at |-> change_at, shift |-> shift]
UTC == Zone(0, 0, 0)
\* Zones the process may run under: UTC, west and east of it without clock
\* changes, and two whose clocks go forward or back ten minutes after Epoch0.
Zones == {UTC, Zone(0 - 3600, 0, 0), Zone(3600, 0, 0),
          Zone(3600, Epoch0 + 10 * SecondsPerMinute, 3600),
          Zone(2 * 3600, Epoch0 + 10 * SecondsPerMinute, 0 - 3600)}
\* The UTC offset the zone has at a wall-clock reading.
utcoffset(zone, reading) ==
    IF zone.shift # 0 /\ reading >= zone.change_at
        THEN zone.base + zone.shift
        ELSE zone.base
\* Amounts by which the clock advances between events.
Durations == {RegistrationMinutes * SecondsPerMinute, 3600,
              jwt_expiration_days * SecondsPerDay}

(*--------------------------- data universe ------------------------------*)
Emails == {"e1", "e2"}
Entities == {"n1", "n2"}
Orgs == {"o1", "o2"}
PermissionNames == {"accounts:create", "accounts:read", "accounts:delete"}

\* The seeded roles and role_permissions rows: role id -> name and permission names.
RoleTable == [admin |-> [name |-> "Admin",
                         permissions |-> <<"accounts:create", "accounts:read", "accounts:delete">>],
              user  |-> [name |-> "User", permissions |-> <<"accounts:read">>]]
RoleIds == DOMAIN RoleTable

Range(s) == {s[i] : i \in DOMAIN s}

(*------------------------------ tokens ----------------------------------*)
ClaimNames == {"sub", "organizationId", "iss", "aud", "iat", "exp", "jti",
               "roles", "permissions"}

Header(alg, kid) == [ok |-> TRUE, alg |-> alg, kid |-> kid]
GarbageHeader == [ok |-> FALSE, alg |-> "", kid |-> ""]
Payload(claims) == [ok |-> TRUE, claims |-> claims]
GarbagePayload == [ok |-> FALSE, claims |-> [c \in {} |-> 0]]

\* The RS256 signature of key over the signing input header.payload.
Sign(key, hdr, payload) == [key |-> key, hdr |-> hdr, payload |-> payload]
\* The signature segment: enc is the base64url text chosen for the bytes v
\* ("canonical", or "altpad": the same bytes with other unused trailing bits).
Signature(v) == [ok |-> TRUE, enc |-> "canonical", v |-> v]
GarbageSignature == [ok |-> FALSE, enc |-> "canonical",
                     v |-> Sign("", GarbageHeader, GarbagePayload)]

\* jwt.encode(payload, private_key, algorithm, headers={"kid": kid})
jwt_encode(claims, key, alg, kid) ==
    LET h == Header(alg, kid)
        p == Payload(claims)
    IN [hdr |-> h, payload |-> p, sig |-> Signature(Sign(key, h, p))]

\* int(naive_utc.timestamp()): a naive datetime is read as local time.
NaiveTimestamp(t, zone) == t - utcoffset(zone, t)

\* Mutant: the role's permissions are taken from the seeded table, not read
\* from the database when the token is issued.
generate_jwt_token_seeded(account, t, zone, jti) ==
    LET role == RoleTable[account.role_id]
        payload == [sub |-> account.entity_id,
                    organizationId |-> account.organization_id,
                    iss |-> jwt_issuer,
                    aud |-> jwt_audience,
                    iat |-> NaiveTimestamp(t, zone),
                    exp |-> NaiveTimestamp(t + settings.jwt_expiration_days * SecondsPerDay, zone),
                    jti |-> jti,
                    roles |-> <<role.name>>,
                    permissions |-> role.permissions]
    IN [tokenType |-> "Bearer",
        token |-> jwt_encode(payload, LoadedKey, jwt_algorithm, jwt_kid),
        expiresAt |-> t + settings.jwt_expiration_days * SecondsPerDay]

generate_jwt_token(account, t, zone, jti) ==
    LET iat == NaiveTimestamp(t, zone)
        exp == NaiveTimestamp(t + settings.jwt_expiration_days * SecondsPerDay, zone)
        role == roles[account.role_id]
        payload == [sub |-> account.entity_id,
                    organizationId |-> account.organization_id,
                    iss |-> jwt_issuer,
                    aud |-> jwt_audience,
                    iat |-> iat,
                    exp |-> exp,
                    jti |-> jti,
                    roles |-> <<role.name>>,
                    permissions |-> role.permissions]
    IN [tokenType |-> "Bearer",
        token |-> jwt_encode(payload, LoadedKey, jwt_algorithm, jwt_kid),
        expiresAt |-> t + settings.jwt_expiration_days * SecondsPerDay]

RegistrationPermissions ==
    <<"accounts:create", "employee:create", "organizations:create",
      "organizations:read", "roles:create">>

generate_temporary_registration_token(email, t, zone, jti) ==
    LET iat == NaiveTimestamp(t, zone)
        exp == NaiveTimestamp(t + RegistrationMinutes * SecondsPerMinute, zone)
        payload == [sub |-> email,
                    organizationId |-> "",
                    iss |-> jwt_issuer,
                    aud |-> jwt_audience,
                    iat |-> iat,
                    exp |-> exp,
                    jti |-> jti,
                    roles |-> <<>>,
                    permissions |-> RegistrationPermissions]
    IN [tokenType |-> "Bearer",
        token |-> jwt_encode(payload, LoadedKey, jwt_algorithm, jwt_kid),
        expiresAt |-> t + RegistrationMinutes * SecondsPerMinute]

(*----------------------------- verifier ---------------------------------*)
RequiredClaims == <<"sub", "iss", "aud", "iat", "exp", "jti">>

NoClaims == [c \in {} |-> 0]
DecodeFailure(e) == [error |-> e, payload |-> NoClaims]

\* The first claim of require that the payload lacks, "" when none is missing.
RECURSIVE first_missing(_, _, _)
first_missing(require, claims, i) ==
    IF i > Len(require) THEN ""
    ELSE IF require[i] \notin DOMAIN claims THEN require[i]
    ELSE first_missing(require, claims, i + 1)

\* Mutant: the token is still accepted in the second it expires.
exp_reached_after(exp, t) == exp < t

\* exp <= now - leeway, leeway 0
exp_reached(exp, t) == exp <= t

\* RS256 verification of the decoded signature bytes over header.payload.
rsa_verify(key, hdr, payload, sigv) == sigv = Sign(key, hdr, payload)

\* jwt.decode(token, key, algorithms=[..], issuer=.., audience=.., options=..)
\* with verify_signature, verify_exp, verify_iss, verify_aud and the default
\* verify_iat on: segments, algorithm, signature, then the claims in the
\* library's order (required, iat, exp, iss, aud).  The header's kid is not read.
jwt_decode(token, key, algorithms, issuer, audience, require, t) ==
    IF ~token.hdr.ok \/ ~token.payload.ok \/ ~token.sig.ok
        THEN DecodeFailure("DecodeError")
    ELSE IF token.hdr.alg \notin algorithms
        THEN DecodeFailure("InvalidAlgorithmError")
    ELSE IF ~rsa_verify(key, token.hdr, token.payload, token.sig.v)
        THEN DecodeFailure("InvalidSignatureError")
    ELSE LET p == token.payload.claims IN
         IF first_missing(require, p, 1) # ""
             THEN DecodeFailure("MissingRequiredClaimError")
         ELSE IF "iat" \in DOMAIN p /\ p.iat > t
             THEN DecodeFailure("ImmatureSignatureError")
         ELSE IF "exp" \in DOMAIN p /\ exp_reached(p.exp, t)
             THEN DecodeFailure("ExpiredSignatureError")
         ELSE IF "iss" \notin DOMAIN p
             THEN DecodeFailure("MissingRequiredClaimError")
         ELSE IF p.iss # issuer
             THEN DecodeFailure("InvalidIssuerError")
         ELSE IF "aud" \notin DOMAIN p
             THEN DecodeFailure("MissingRequiredClaimError")
         ELSE IF p.aud # audience
             THEN DecodeFailure("InvalidAudienceError")
         ELSE [error |-> "", payload |-> p]

NoUser == [sub |-> "", organizationId |-> "", iss |-> "", aud |-> "", iat |-> 0,
           exp |-> 0, jti |-> 0, roles |-> <<>>, permissions |-> <<>>]

\* payload.get(name, default)
payload_get(p, name, default) == IF name \in DOMAIN p THEN p[name] ELSE default

\* Returns [error, user]: error "" and the DecodedToken, or the exception raised.
verify_and_decode_token(token, t) ==
    LET d == jwt_decode(token, LoadedKey, {jwt_algorithm}, jwt_issuer,
                        jwt_audience, RequiredClaims, t)
        p == d.payload
    IN IF d.error # "" THEN [error |-> d.error, user |-> NoUser]
       ELSE [error |-> "",
             user |-> [sub |-> p.sub,
                       organizationId |-> payload_get(p, "organizationId", ""),
                       iss |-> p.iss,
                       aud |-> p.aud,
                       iat |-> p.iat,
                       exp |-> p.exp,
                       jti |-> p.jti,
                       roles |-> payload_get(p, "roles", <<>>),
                       permissions |-> payload_get(p, "permissions", <<>>)]]

(*---------------------------- dependencies ------------------------------*)
NoToken == [hdr |-> GarbageHeader, payload |-> GarbagePayload, sig |-> GarbageSignature]

\* The Authorization header of a request: form is "missing" (no header),
\* "empty" (""), "other" (does not start with "Bearer "), "bearer_empty"
\* ("Bearer " and nothing) or "bearer" ("Bearer " and token).
Authorization(form, token) == [form |-> form, token |-> token]

Response(status, detail, missing, user) ==
    [status |-> status, detail |-> detail, missing |-> missing, user |-> user]

\* Mutant: a wrong audience is answered as a permission failure.
auth_failure_status_aud(error) == IF error = "InvalidAudienceError" THEN 403 ELSE 401

\* The except clauses of get_current_user, in order; every one answers 401.
auth_failure_status(error) ==
    IF error = "ExpiredSignatureError" THEN 401
    ELSE IF error \in {"DecodeError", "InvalidAlgorithmError", "InvalidSignatureError",
                       "MissingRequiredClaimError", "ImmatureSignatureError",
                       "InvalidIssuerError", "InvalidAudienceError"} THEN 401
    ELSE 401

auth_failure_detail(error) ==
    IF error = "ExpiredSignatureError" THEN "Token has expired" ELSE "Invalid token"

get_current_user(authorization, t) ==
    IF authorization.form = "missing"
        THEN Response(422, "Validation error", <<>>, NoUser)
    ELSE IF authorization.form = "empty"
        THEN Response(401, "Authorization header is required", <<>>, NoUser)
    ELSE IF authorization.form = "other"
        THEN Response(401, "Invalid authorization header format. Expected 'Bearer <token>'",
                      <<>>, NoUser)
    ELSE IF authorization.form = "bearer_empty"
        THEN Response(401, "Token is required", <<>>, NoUser)
    ELSE LET v == verify_and_decode_token(authorization.token, t) IN
         IF v.error = "" THEN Response(200, "", <<>>, v.user)
         ELSE Response(auth_failure_status(v.error), auth_failure_detail(v.error),
                       <<>>, NoUser)

\* Mutant: the missing permissions are collected in reverse order.
RECURSIVE missing_permissions_reversed(_, _, _, _)
missing_permissions_reversed(required_permissions, user_permissions, i, acc) ==
    IF i > Len(required_permissions) THEN acc
    ELSE missing_permissions_reversed(required_permissions, user_permissions, i + 1,
             IF required_permissions[i] \notin user_permissions
                 THEN <<required_permissions[i]>> \o acc
                 ELSE acc)

\* for permission in required_permissions:
\*     if permission not in user_permissions: missing_permissions.append(permission)
RECURSIVE missing_permissions(_, _, _, _)
missing_permissions(required_permissions, user_permissions, i, acc) ==
    IF i > Len(required_permissions) THEN acc
    ELSE missing_permissions(required_permissions, user_permissions, i + 1,
             IF required_permissions[i] \notin user_permissions
                 THEN Append(acc, required_permissions[i])
                 ELSE acc)

\* Mutant: the permissions are read from the account's current role, not from
\* the token.
permission_checker_live(current_user, required_permissions) ==
    LET live == UNION {Range(roles[a.role_id].permissions) :
                          a \in {b \in accounts : b.entity_id = current_user.sub}}
        missing == missing_permissions(required_permissions, live, 1, <<>>)
    IN IF missing # <<>>
          THEN Response(403, "Missing required permissions", missing, NoUser)
          ELSE Response(200, "", <<>>, current_user)

\* check_permissions(required)(current_user): the user is already authenticated.
permission_checker(current_user, required_permissions) ==
    LET missing == missing_permissions(required_permissions,
                                       Range(current_user.permissions), 1, <<>>)
    IN IF missing # <<>>
          THEN Response(403,
                        IF Len(missing) = 1 THEN "Missing required permission"
                                            ELSE "Missing required permissions",
                        missing, NoUser)
          ELSE Response(200, "", <<>>, current_user)

\* Mutant: the dependency authenticates and skips the permission check.
permission_dependency_unchecked(authorization, required_permissions, t) ==
    get_current_user(authorization, t)

\* require_permissions(required): Depends(get_current_user), then the check.
permission_dependency(authorization, required_permissions, t) ==
    LET auth == get_current_user(authorization, t) IN
    IF auth.status # 200 THEN auth
    ELSE permission_checker(auth.user, required_permissions)

(*------------------------ tokens a client may send ----------------------*)
\* Tokens the holder of the loaded private key can sign, derived from the
\* claims of an issued token: the token itself, the same claims under another
\* kid, without a claim, or with another issuer or audience.
Without(claims, name) == [c \in DOMAIN claims \ {name} |-> claims[c]]

KeyHolderVariants == {"same", "other_kid", "no_jti", "no_org", "bad_iss", "bad_aud",
                      "no_jti_bad_iss"}

KeyHolderToken(token, variant) ==
    LET c == token.payload.claims IN
    CASE variant = "same" -> token
      [] variant = "other_kid" -> jwt_encode(c, LoadedKey, jwt_algorithm, "auth-other")
      [] variant = "no_jti" -> jwt_encode(Without(c, "jti"), LoadedKey, jwt_algorithm, jwt_kid)
      [] variant = "no_org" ->
             jwt_encode(Without(c, "organizationId"), LoadedKey, jwt_algorithm, jwt_kid)
      [] variant = "bad_iss" ->
             jwt_encode([c EXCEPT !.iss = "https://other.example.com"],
                        LoadedKey, jwt_algorithm, jwt_kid)
      [] variant = "bad_aud" ->
             jwt_encode([c EXCEPT !.aud = "https://other.example.com"],
                        LoadedKey, jwt_algorithm, jwt_kid)
      [] variant = "no_jti_bad_iss" ->
             jwt_encode([Without(c, "jti") EXCEPT !.iss = "https://other.example.com"],
                        LoadedKey, jwt_algorithm, jwt_kid)

\* What someone without the private key can do to a token: change the payload
\* and keep the signature, change the signature and keep the rest, or change
\* the header's algorithm.
PayloadTampers == {"payload_extend", "payload_garbage"}
SignatureTampers == {"sig_foreign", "sig_garbage"}
Tampers == {"none", "sig_altpad", "alg_hs256"} \cup PayloadTampers \cup SignatureTampers

Tamper(token, how) ==
    CASE how = "none" -> token
      [] how = "payload_extend" ->
             [token EXCEPT !.payload.claims.exp = @ + jwt_expiration_days * SecondsPerDay]
      [] how = "payload_garbage" -> [token EXCEPT !.payload = GarbagePayload]
      [] how = "sig_foreign" ->
             [token EXCEPT !.sig = Signature(Sign(ForeignKey, token.hdr, token.payload))]
      [] how = "sig_garbage" -> [token EXCEPT !.sig = GarbageSignature]
      [] how = "sig_altpad" -> [token EXCEPT !.sig.enc = "altpad"]
      [] how = "alg_hs256" -> [token EXCEPT !.hdr.alg = "HS256"]

\* Required permission lists of the account endpoints (routers/v1/accounts.py).
CreateRequires == <<"accounts:create">>
DeleteRequires == <<"accounts:delete">>
EndpointRequires == {CreateRequires, DeleteRequires}

(*------------------------------ passwords -------------------------------*)
\* bcrypt reads at most this many bytes of a password.
BcryptMaxBytes == 72

\* str.encode('utf-8') of one code point below U+0800.
utf8(c) == IF c < 128 THEN <<c>> ELSE <<192 + (c \div 64), 128 + (c % 64)>>

\* password.encode('utf-8')
RECURSIVE encode(_)
encode(s) == IF s = <<>> THEN <<>> ELSE utf8(Head(s)) \o encode(Tail(s))

\* password_bytes[:72] when longer than 72 bytes
truncate(password_bytes) ==
    IF Len(password_bytes) > BcryptMaxBytes
        THEN SubSeq(password_bytes, 1, BcryptMaxBytes)
        ELSE password_bytes

\* The 16 random bytes bcrypt.gensalt() draws from the operating system.
SaltBytes == {"salt1", "salt2"}

\* bcrypt.gensalt(): prefix, cost and the drawn salt.
gensalt(drawn) == [prefix |-> "2b", rounds |-> 12, salt |-> drawn]

\* bcrypt.hashpw(password, salt): salt is a gensalt() value or an earlier hash, of
\* which the prefix, the cost and the salt are read.  The digest is taken to be
\* collision free: it is the triple it was computed from.
hashpw(password_bytes, setting) ==
    [prefix |-> setting.prefix, rounds |-> setting.rounds, salt |-> setting.salt,
     digest |-> <<setting.salt, setting.rounds, password_bytes>>]

\* bcrypt.checkpw(password, hashed_password)
checkpw(password_bytes, hashed) == hashpw(password_bytes, hashed) = hashed

\* hash_password(password); drawn is the salt gensalt() draws in this call.  The
\* hash is ASCII text, the same before and after decode('utf-8').
hash_password(password, drawn) == hashpw(truncate(encode(password)), gensalt(drawn))

\* verify_password that hands the whole password to bcrypt
verify_password_whole(plain_password, hashed_password) ==
    checkpw(encode(plain_password), hashed_password)

\* verify_password(plain_password, hashed_password)
verify_password(plain_password, hashed_password) ==
    checkpw(truncate(encode(plain_password)), hashed_password)

\* Plaintexts: 'a' is U+0061 (one byte), 'e' with acute accent is U+00E9 (two
\* bytes).  The short ones are the empty password and one accented letter; the
\* long ones encode to 70, 72, 73 (a letter split by the cut) and 74 bytes.
LongPrefix == [i \in 1..(BcryptMaxBytes - 2) |-> 97]
Endings == {<<>>, <<233>>, <<97, 233>>, <<233, 233>>}
Passwords == {<<>>, <<233>>} \cup {LongPrefix \o e : e \in Endings}

NoHash == [prefix |-> "", rounds |-> 0, salt |-> "", digest |-> <<>>]
NoVerification == [plain |-> <<>>, hashed |-> NoHash, result |-> FALSE]

(*------------------------------ key cache -------------------------------*)
\* The two module-level caches, _private_key_cache and _public_key_cache.
KeyNames == {"private", "public"}

\* The threads of the worker pool that run the synchronous endpoints (login,
\* register, jwks); each calls the loaders on its own.
Threads == {1, 2, 3}

\* Position of a thread: outside the loaders, or inside one between the test of
\* the cache and the assignment to it.
Outside == [pc |-> "outside", key |-> "", decoded |-> FALSE]

\* Process start: both caches are None, nothing was decoded.
ColdKeys == [cache |-> [k \in KeyNames |-> "None"],
             decodes |-> [k \in KeyNames |-> 0],
             calls |-> 0,
             thread |-> [t \in Threads |-> Outside]]

(*--------------------------- seeded accounts ----------------------------*)
Row(email, entity, org, role) ==
    [email |-> email, entity_id |-> entity, organization_id |-> org, role_id |-> role]

\* scripts/seed.py: an admin and a user account of the default organization,
\* both with the same entity_id.
SeedAccounts == {Row("e1", "n1", "o1", "admin"), Row("e2", "n1", "o1", "user")}

(*------------------------------ requests --------------------------------*)
NoIssued == [tokenType |-> "", token |-> NoToken, expiresAt |-> 0]
NoResponse == Response(0, "", <<>>, NoUser)
NoRequest == [authorization |-> Authorization("missing", NoToken), required |-> <<>>,
              at |-> 0, origin |-> NoIssued, variant |-> "same", tamper |-> "none",
              response |-> NoResponse]

IdleSlots == [r \in {} |-> 0]
NoCheck == [held |-> <<>>, required |-> <<>>, response |-> NoResponse]

TokenInit ==
    /\ now = Epoch0
    /\ tz \in Zones
    /\ jtiSeq = 1
    /\ issued = {}
    /\ ticks = 0
    /\ last = NoRequest
    /\ authz = NoCheck
    /\ accounts = SeedAccounts
    /\ directory = {}
    /\ req = IdleSlots
    /\ started = 0
    /\ roles = RoleTable
    /\ hashes = <<>>
    /\ checked = NoVerification
    /\ keys = ColdKeys
    /\ settings = DefaultSettings

\* POST /auth/login with valid credentials of an existing account.
Login(email) ==
    /\ last = NoRequest
    /\ jtiSeq <= MaxIssued
    /\ \E a \in accounts :
          /\ a.email = email
          /\ issued' = {generate_jwt_token(a, now, tz, jtiSeq)}
    /\ jtiSeq' = jtiSeq + 1
    /\ UNCHANGED <<now, tz, ticks, last, authz, accounts, directory, req, started, roles, hashes, checked, keys, settings>>

\* POST /auth/register
Register(email) ==
    /\ last = NoRequest
    /\ jtiSeq <= MaxIssued
    /\ issued' = {generate_temporary_registration_token(email, now, tz, jtiSeq)}
    /\ jtiSeq' = jtiSeq + 1
    /\ UNCHANGED <<now, tz, ticks, last, authz, accounts, directory, req, started, roles, hashes, checked, keys, settings>>

Tick(d) ==
    /\ last = NoRequest
    /\ ticks < MaxTicks
    /\ now' = now + d
    /\ ticks' = ticks + 1
    /\ UNCHANGED <<tz, jtiSeq, issued, last, authz, accounts, directory, req, started, roles, hashes, checked, keys, settings>>

\* A request to a protected endpoint carrying a token derived from an issued one.
RequestWithToken(origin, variant, how, required) ==
    LET token == Tamper(KeyHolderToken(origin.token, variant), how)
        authorization == Authorization("bearer", token)
    IN /\ last = NoRequest
       /\ variant = "same" \/ how = "none"
       /\ last' = [authorization |-> authorization, required |-> required, at |-> now,
                   origin |-> origin, variant |-> variant, tamper |-> how,
                   response |-> permission_dependency(authorization, required, now)]
       /\ UNCHANGED <<now, tz, jtiSeq, issued, ticks, authz, accounts, directory, req, started, roles, hashes, checked, keys, settings>>

\* A request to a protected endpoint with no usable bearer token.
RequestWithoutToken(form, required) ==
    LET authorization == Authorization(form, NoToken)
    IN /\ last = NoRequest
       /\ last' = [authorization |-> authorization, required |-> required, at |-> now,
                   origin |-> NoIssued, variant |-> "same", tamper |-> "none",
                   response |-> permission_dependency(authorization, required, now)]
       /\ UNCHANGED <<now, tz, jtiSeq, issued, ticks, authz, accounts, directory, req, started, roles, hashes, checked, keys, settings>>

\* The response has been sent; the service keeps nothing of the request.
Respond ==
    /\ last # NoRequest
    /\ last' = NoRequest
    /\ UNCHANGED <<now, tz, jtiSeq, issued, ticks, authz, accounts, directory, req, started, roles, hashes, checked, keys, settings>>

TokenNext ==
    \/ Respond
    \/ \E email \in Emails : Login(email)
    \/ \E email \in Emails : Register(email)
    \/ \E d \in Durations : Tick(d)
    \/ \E origin \in issued, variant \in KeyHolderVariants, how \in Tampers,
          required \in EndpointRequires :
          RequestWithToken(origin, variant, how, required)
    \/ \E form \in {"missing", "empty", "other", "bearer_empty"},
          required \in EndpointRequires :
          RequestWithoutToken(form, required)

TokenSpec == TokenInit /\ [][TokenNext]_vars

(*----------------------- the bare permission checker --------------------*)
\* All lists of at most n permission names.
RECURSIVE ListsUpTo(_, _)
ListsUpTo(S, n) ==
    IF n = 0 THEN {<<>>}
    ELSE LET shorter == ListsUpTo(S, n - 1)
         IN shorter \cup {Append(l, x) : l \in {k \in shorter : Len(k) = n - 1}, x \in S}

PermissionLists == ListsUpTo(PermissionNames, MaxRequired)

AuthzInit ==
    /\ now = Epoch0
    /\ tz = UTC
    /\ jtiSeq = 1
    /\ issued = {}
    /\ ticks = 0
    /\ last = NoRequest
    /\ authz = NoCheck
    /\ accounts = {}
    /\ directory = {}
    /\ req = IdleSlots
    /\ started = 0
    /\ roles = RoleTable
    /\ hashes = <<>>
    /\ checked = NoVerification
    /\ keys = ColdKeys
    /\ settings = DefaultSettings

\* check_permissions(required)(current_user) for a decoded token holding `held`.
CheckPermissions(held, required) ==
    /\ authz = NoCheck
    /\ authz' = [held |-> held, required |-> required,
                 response |-> permission_checker([NoUser EXCEPT !.permissions = held],
                                                 required)]
    /\ UNCHANGED <<now, tz, jtiSeq, issued, ticks, last, accounts, directory, req, started, roles, hashes, checked, keys, settings>>

\* The checker has returned (or raised); nothing of the call is kept.
Return ==
    /\ authz # NoCheck
    /\ authz' = NoCheck
    /\ UNCHANGED <<now, tz, jtiSeq, issued, ticks, last, accounts, directory, req, started, roles, hashes, checked, keys, settings>>

AuthzNext ==
    \/ \E held \in PermissionLists, required \in PermissionLists :
          CheckPermissions(held, required)
    \/ Return

AuthzSpec == AuthzInit /\ [][AuthzNext]_vars

(*--------------------------- account lifecycle --------------------------*)
\* Two requests can be in flight at once.  A handler runs without interruption
\* between two awaits; its only await is the PATCH to the Organizations service.
Slots == {1, 2}

\* Tokens the callers of the account endpoints hold at time Epoch0.
Callers == {"admin", "reader", "register", "forged"}
CallerToken(c) ==
    CASE c = "admin" ->
             generate_jwt_token(Row("e1", "n1", "o1", "admin"), Epoch0 - 3600, UTC, 101).token
      [] c = "reader" ->
             generate_jwt_token(Row("e2", "n1", "o1", "user"), Epoch0 - 3600, UTC, 102).token
      [] c = "register" ->
             generate_temporary_registration_token("e1", Epoch0 - 60, UTC, 103).token
      [] c = "forged" ->
             Tamper(generate_jwt_token(Row("e1", "n1", "o1", "admin"), Epoch0 - 3600, UTC, 105).token,
                    "sig_foreign")

\* account_service.get_accounts(db, organization_id, ...)[1]
get_accounts_total(rows, organization_id) ==
    Cardinality({a \in rows : a.organization_id = organization_id})

\* account_service.get_account_by_email that matches on the email alone
get_account_by_email_any_org(rows, email, organization_id) ==
    {a \in rows : a.email = email}

\* account_service.get_account_by_email(db, email, organization_id): the rows found.
get_account_by_email(rows, email, organization_id) ==
    {a \in rows : a.email = email /\ a.organization_id = organization_id}

\* role_service.get_role(db, role_id) is not None
get_role(role_id) == role_id \in DOMAIN roles

\* a create endpoint that checks nothing before calling the account service
create_precheck_none(rows, user, body) == 0

\* The checks of the create endpoint before the account service is called:
\* 0 to go on, else the status of the early response.
create_precheck(rows, user, body) ==
    LET from_token == user.organizationId # ""
        organization_id == IF from_token THEN user.organizationId ELSE body.organization_id
    IN IF ~from_token /\ get_accounts_total(rows, organization_id) > 0 THEN 403
       ELSE IF get_account_by_email(rows, body.email, organization_id) # {} THEN 409
       ELSE IF ~get_role(body.role_id) THEN 422
       ELSE 0

\* Mutant: the router does not recognise the service's abort message.
is_directory_failure_never(e) == FALSE

\* str(e) of the exception create_account raises when the PATCH failed.
AbortMessage ==
    "Unable to update employee in Organizations Service. Account creation aborted."
\* str(e) of the IntegrityError a commit raises on a duplicate primary key.
IntegrityMessage == "duplicate key value violates unique constraint accounts_pkey"
\* The messages in which the words "Organizations Service" occur.
NamesOrganizationsService == {AbortMessage}

\* except Exception as e: if "Organizations Service" in str(e): ... 503; else re-raised
is_directory_failure(e) == e \in NamesOrganizationsService

create_failure_status(e) == IF is_directory_failure(e) THEN 503 ELSE 500

\* a table without primary key: the insert never fails
violates_primary_key_never(rows, row) == FALSE

\* primary key of table accounts
violates_primary_key(rows, row) == \E a \in rows : a.email = row.email

\* Mutant: a failed PATCH fails the deletion request, as it does a creation.
delete_account_finish_raises(result) ==
    [status |-> IF result = "error" THEN 503 ELSE 200, warnings |-> 0]

\* delete_account after the PATCH: [status, warnings logged]
delete_account_finish(result) ==
    [status |-> 200, warnings |-> IF result = "error" THEN 1 ELSE 0]

Idle == [op |-> "idle", pc |-> "idle", caller |-> "admin", email |-> "", entity_id |-> "",
         organization_id |-> "", role_id |-> "", result |-> "", status |-> 0,
         patches |-> 0, inserted |-> FALSE, deleted |-> FALSE, warnings |-> 0,
         touched |-> FALSE, returned |-> {}]

Init ==
    /\ now = Epoch0
    /\ tz = UTC
    /\ jtiSeq = 1
    /\ issued = {}
    /\ ticks = 0
    /\ last = NoRequest
    /\ authz = NoCheck
    /\ accounts = {}
    /\ directory = {}
    /\ req = [r \in Slots |-> Idle]
    /\ started = 0
    /\ roles = RoleTable
    /\ hashes = <<>>
    /\ checked = NoVerification
    /\ keys = ColdKeys
    /\ settings = DefaultSettings

\* A new request is taken by the first worker slot that is free.
FreeSlot(r) == req[r].pc = "idle" /\ \A q \in Slots : req[q].pc = "idle" => r <= q

Unused == <<now, tz, jtiSeq, issued, ticks, last, authz, roles, hashes, checked, keys, settings>>

\* POST /accounts up to the await of the PATCH (or to an early response).
CreateBegin(r, caller, body) ==
    LET gate == permission_dependency(Authorization("bearer", CallerToken(caller)),
                                      CreateRequires, now)
        check == create_precheck(accounts, gate.user, body)
        received == [Idle EXCEPT !.op = "create", !.caller = caller]
    IN /\ FreeSlot(r)
       /\ started < MaxStarted
       /\ started' = started + 1
       /\ req' = [req EXCEPT ![r] =
              IF gate.status # 200
                  THEN [received EXCEPT !.pc = "done", !.status = gate.status]
              ELSE IF check # 0
                  THEN [received EXCEPT !.pc = "done", !.status = check, !.touched = TRUE]
              ELSE [received EXCEPT !.pc = "patching", !.touched = TRUE,
                                    !.email = body.email, !.entity_id = body.entity_id,
                                    !.organization_id = body.organization_id,
                                    !.role_id = body.role_id, !.patches = 1]]
       /\ UNCHANGED <<accounts, directory>>
       /\ UNCHANGED Unused

\* DELETE /accounts/{email} up to the await of the PATCH (or to an early response).
DeleteBegin(r, caller, email) ==
    LET gate == permission_dependency(Authorization("bearer", CallerToken(caller)),
                                      DeleteRequires, now)
        organization_id == gate.user.organizationId
        found == get_account_by_email(accounts, email, organization_id)
        received == [Idle EXCEPT !.op = "delete", !.caller = caller]
    IN /\ FreeSlot(r)
       /\ started < MaxStarted
       /\ started' = started + 1
       /\ IF gate.status # 200
              THEN /\ req' = [req EXCEPT ![r] =
                                 [received EXCEPT !.pc = "done", !.status = gate.status]]
                   /\ UNCHANGED accounts
          ELSE IF found = {}
              THEN /\ req' = [req EXCEPT ![r] =
                                 [received EXCEPT !.pc = "done", !.status = 404,
                                                  !.touched = TRUE, !.email = email]]
                   /\ UNCHANGED accounts
          ELSE \E db_account \in found :
                   /\ accounts' = accounts \ {db_account}
                   /\ req' = [req EXCEPT ![r] =
                                 [received EXCEPT !.pc = "patching", !.touched = TRUE,
                                                  !.email = email,
                                                  !.entity_id = db_account.entity_id,
                                                  !.organization_id = organization_id,
                                                  !.deleted = TRUE, !.patches = 1]]
       /\ UNCHANGED directory
       /\ UNCHANGED Unused

\* update_employee_has_account that addresses the organization in both places
employee_url_by_org(organization_id, employee_id) == <<organization_id, organization_id>>

\* The employee the PATCH addresses:
\* {organizations_service_url}/organizations/{organization_id}/employees/{employee_id}
employee_url(organization_id, employee_id) == <<organization_id, employee_id>>

\* The PATCH of request r reaches the Organizations service, or fails on the way;
\* applied tells whether the service stored hasAccount, result what the client sees.
DirectoryPatch(r, applied, result) ==
    /\ req[r].pc = "patching"
    /\ result = "ok" => applied
    /\ directory' =
          IF ~applied THEN directory
          ELSE IF req[r].op = "create"
              THEN directory \cup {employee_url(req[r].organization_id, req[r].entity_id)}
              ELSE directory \ {employee_url(req[r].organization_id, req[r].entity_id)}
    /\ req' = [req EXCEPT ![r].pc = "patched", ![r].result = result]
    /\ UNCHANGED <<accounts, started>>
    /\ UNCHANGED Unused

\* a handler that calls the Organizations service again after a failed PATCH
after_patch_failure_again == "patching"

\* Where a request goes after a failed PATCH: the except clauses raise (create)
\* or log (delete) and the request ends; the call is not repeated.
after_patch_failure == "done"

\* create_account after the await: abort on a failed PATCH, else insert and commit.
CreateResume(r) ==
    LET me == req[r]
        row == Row(me.email, me.entity_id, me.organization_id, me.role_id)
    IN /\ me.op = "create" /\ me.pc = "patched"
       /\ IF me.result = "error"
              THEN /\ req' = [req EXCEPT ![r].pc = after_patch_failure,
                                  ![r].status = create_failure_status(AbortMessage)]
                   /\ UNCHANGED accounts
          ELSE IF violates_primary_key(accounts, row)
              THEN /\ req' = [req EXCEPT ![r].pc = "done",
                                  ![r].status = create_failure_status(IntegrityMessage)]
                   /\ UNCHANGED accounts
          ELSE /\ accounts' = accounts \cup {row}
               /\ req' = [req EXCEPT ![r].pc = "done", ![r].status = 201,
                                     ![r].inserted = TRUE]
       /\ UNCHANGED <<directory, started>>
       /\ UNCHANGED Unused

\* delete_account after the await: a failed PATCH is logged, the answer is success.
DeleteResume(r) ==
    LET me == req[r]
        finish == delete_account_finish(me.result)
    IN /\ me.op = "delete" /\ me.pc = "patched"
       /\ req' = [req EXCEPT ![r].pc = IF me.result = "error" THEN after_patch_failure
                                                                  ELSE "done",
                             ![r].status = finish.status,
                             ![r].warnings = @ + finish.warnings]
       /\ UNCHANGED <<accounts, directory, started>>
       /\ UNCHANGED Unused

\* The response of request r has been sent.
Close(r) ==
    /\ req[r].pc = "done"
    /\ req' = [req EXCEPT ![r] = Idle]
    /\ UNCHANGED <<accounts, directory, started>>
    /\ UNCHANGED Unused

Bodies == {[email |-> e, entity_id |-> n, organization_id |-> o, role_id |-> role] :
              e \in Emails, n \in Entities, o \in Orgs, role \in {"admin", "ghost"}}

Next ==
    \/ \E r \in Slots, caller \in Callers, body \in Bodies : CreateBegin(r, caller, body)
    \/ \E r \in Slots, caller \in Callers, email \in Emails : DeleteBegin(r, caller, email)
    \/ \E r \in Slots, applied \in BOOLEAN, result \in {"ok", "error"} :
          DirectoryPatch(r, applied, result)
    \/ \E r \in Slots : CreateResume(r)
    \/ \E r \in Slots : DeleteResume(r)
    \/ \E r \in Slots : Close(r)

Spec == Init /\ [][Next]_vars

(*======================= properties: token verifier =====================*)
BearerRequest == last # NoRequest /\ last.authorization.form = "bearer"
Presented == last.authorization.token
Claims == Presented.payload.claims
\* What verify_and_decode_token makes of the presented token at request time.
Verdict == verify_and_decode_token(Presented, last.at)
HasExpired == /\ BearerRequest
              /\ Presented.payload.ok
              /\ "exp" \in DOMAIN Claims
              /\ last.at >= Claims.exp
\* The token the client started from, before any tampering.
Untampered == KeyHolderToken(last.origin.token, last.variant)
PreviouslyValid == verify_and_decode_token(Untampered, last.at).error = ""

C6_IssuedTokenVerifiesBeforeExp ==
    ( /\ BearerRequest
      /\ last.variant = "same" /\ last.tamper = "none"
      /\ last.at < Claims.exp )
    => /\ Verdict.error = ""
       /\ Verdict.user = Claims

\* C7 as stated, its second clause: a previously valid token whose payload or
\* signature segment was changed, the other part kept, is never decoded.
C7_TamperedNeverDecoded ==
    ( /\ BearerRequest
      /\ last.tamper \in PayloadTampers \cup SignatureTampers \cup {"sig_altpad"}
      /\ PreviouslyValid
      /\ Presented # Untampered
      /\ Presented.hdr = Untampered.hdr )
    => Verdict.error # ""

\* C8 as stated: a token whose header kid is not the kid of the loaded key is
\* refused, even when its signature validates under the loaded key.
C8_UnknownKidRefused ==
    (BearerRequest /\ Presented.hdr.ok /\ Presented.hdr.kid # jwt_kid)
    => /\ Verdict.error # ""
       /\ last.response.status = 401

\* C10: a request whose token fails verification, for whatever reason, is
\* answered 401; one whose token verifies but lacks a required permission is
\* answered 403; and only a verified token holding every required permission
\* gets through.
C10_FailureOutcomes ==
    BearerRequest =>
        LET held == Range(Verdict.user.permissions)
            lacks == \E i \in DOMAIN last.required : last.required[i] \notin held
        IN /\ Verdict.error # "" => last.response.status = 401
           /\ (Verdict.error = "" /\ lacks) => last.response.status = 403
           /\ (Verdict.error = "" /\ ~lacks) => last.response.status = 200

\* A verified registration token was refused by the delete endpoint with 403.
C10_Witness ==
    /\ BearerRequest
    /\ Verdict.error = ""
    /\ last.required = DeleteRequires
    /\ last.response.status = 403
    /\ last.response.missing = <<"accounts:delete">>

(*===================== properties: permission checker ===================*)
\* C9: the checker lets the user through exactly when every required
\* permission is held; otherwise it answers 403 with the required permissions
\* that are not held, in the order of the required list.
C9_MissingPermissions ==
    authz # NoCheck =>
        LET P == Range(authz.held)
            R == authz.required
            NotHeld(x) == x \notin P
        IN /\ authz.response.status = 200 <=> (\A i \in DOMAIN R : R[i] \in P)
           /\ authz.response.status \in {200, 403}
           /\ authz.response.status = 403 => authz.response.missing = SelectSeq(R, NotHeld)
           /\ authz.response.status = 200 => authz.response.user.permissions = authz.held
           /\ R = <<>> => authz.response.status = 200

\* Two different required permissions, neither held: both reported, in order.
C9_Witness ==
    /\ authz # NoCheck
    /\ Len(authz.required) = 2
    /\ authz.required[1] # authz.required[2]
    /\ authz.response.status = 403
    /\ authz.response.missing = authz.required

(*====================== properties: account lifecycle ===================*)
\* C1 as stated: whenever a local account row (O, E) exists, the directory's
\* hasAccount flag of employee E of organization O is true.
C1_DirectoryKnowsEveryAccount ==
    \A a \in accounts : <<a.organization_id, a.entity_id>> \in directory

\* C2: a creation whose PATCH failed ends with 503 and inserts nothing, the
\* step that aborts it leaves the account rows as they are, and a row is
\* inserted only by a request whose PATCH had succeeded.
C2_CreateAbortsOnSyncFailure ==
    [][\A r \in Slots :
          /\ ( /\ req[r].op = "create" /\ req[r].pc = "patched"
               /\ req[r].result = "error"
               /\ req'[r].pc = "done" )
             => /\ accounts' = accounts
                /\ req'[r].status = 503
                /\ ~req'[r].inserted
          /\ (req'[r].inserted /\ ~req[r].inserted)
             => /\ req[r].op = "create" /\ req[r].pc = "patched"
                /\ req[r].result = "ok"
                /\ req[r].patches = 1
      ]_vars

C2_Witness ==
    \E r \in Slots :
        /\ req[r].op = "create" /\ req[r].pc = "done"
        /\ req[r].result = "error"
        /\ req[r].status = 503
        /\ ~req[r].inserted

\* C3: a deletion that found its account removes the row before the PATCH, and
\* when the PATCH fails it does not put the row back, answers success and logs
\* exactly one reconciliation warning.
C3_DeleteSurvivesSyncFailure ==
    [][\A r \in Slots :
          /\ ( /\ req[r].op = "delete" /\ req[r].pc = "patched"
               /\ req[r].result = "error"
               /\ req'[r].pc = "done" )
             => /\ accounts' = accounts
                /\ req'[r].status = 200
                /\ req[r].warnings = 0 /\ req'[r].warnings = 1
          /\ (req[r].pc = "idle" /\ req'[r].op = "delete" /\ req'[r].deleted)
             => /\ get_account_by_email(accounts', req'[r].email,
                                        req'[r].organization_id) = {}
                /\ req'[r].pc = "patching"
          /\ ( /\ req[r].op = "delete" /\ req[r].pc = "patched"
               /\ req[r].result = "ok"
               /\ req'[r].pc = "done" )
             => req'[r].warnings = 0
      ]_vars

C3_Witness ==
    \E r \in Slots :
        /\ req[r].op = "delete" /\ req[r].pc = "done"
        /\ req[r].deleted
        /\ req[r].result = "error"
        /\ req[r].status = 200
        /\ req[r].warnings = 1
        /\ get_account_by_email(accounts, req[r].email, req[r].organization_id) = {}

\* C4: a request reads or writes account rows, or has a PATCH sent, only if its
\* token verifies and holds every permission its endpoint requires.
C4_GateBeforeEffects ==
    \A r \in Slots :
        (req[r].touched \/ req[r].patches > 0 \/ req[r].inserted \/ req[r].deleted)
        => LET v == verify_and_decode_token(CallerToken(req[r].caller), now)
               required == IF req[r].op = "create" THEN CreateRequires ELSE DeleteRequires
           IN /\ v.error = ""
              /\ \A i \in DOMAIN required : required[i] \in Range(v.user.permissions)

\* One request got as far as its PATCH while another was turned away at the gate.
C4_Witness ==
    \E r, q \in Slots :
        /\ req[r].patches = 1
        /\ req[q].pc = "done" /\ req[q].status \in {401, 403}
        /\ ~req[q].touched /\ req[q].patches = 0

(*======================== properties: bearer header =====================*)
\* C11 as stated: a protected request with no Authorization header, with a
\* header that does not start with "Bearer ", or with no token after the prefix
\* is answered 401, and that before the token verifier is called (the answer is
\* none of the verifier's failures).
C11_NoBearerIsUnauthenticated ==
    (last # NoRequest /\ last.authorization.form # "bearer")
    => /\ last.response.status = 401
       /\ last.response.detail \notin {"Token has expired", "Invalid token"}
       /\ last.response.user = NoUser

(*==================== properties: account rows and tenants ===============*)
\* C12 as stated: after any sequence of account creations and deletions, no two
\* account rows have the same entity_id.
C12_EntityIdUnique ==
    \A a \in accounts : \A b \in accounts : a.entity_id = b.entity_id => a = b

\* C13 as stated: while the requests in flight are creations authenticated with
\* provisional tokens, whenever one of them inserts its row, the row's
\* organization has no account row at that moment.
C13_ProvisionalOnlyFirstAccount ==
    [][\A r \in Slots :
          ( /\ req'[r].inserted /\ ~req[r].inserted
            /\ \A q \in Slots : req[q].op # "idle" =>
                   req[q].op = "create" /\ req[q].caller = "register" )
          => get_accounts_total(accounts, req[r].organization_id) = 0
      ]_vars

(*------------------- role and account administration --------------------*)
\* role_service.assign_permissions_to_role: the permissions not yet assigned
\* are added to the role's; the others are skipped.
assign_permissions_to_role(table, role_id, permission_ids) ==
    LET current == Range(table[role_id].permissions)
        IsNew(p) == p \notin current
    IN [table EXCEPT ![role_id].permissions =
           table[role_id].permissions \o SelectSeq(permission_ids, IsNew)]

\* role_service.remove_permissions_from_role
remove_permissions_from_role(table, role_id, permission_ids) ==
    LET Kept(p) == p \notin Range(permission_ids)
    IN [table EXCEPT ![role_id].permissions =
           SelectSeq(table[role_id].permissions, Kept)]

\* a lookup for update_account by the email alone
update_account_lookup_any_org(rows, email, organization_id) ==
    {a \in rows : a.email = email}

\* account_service.update_account: db_account, the row to update (none: None).
update_account_lookup(rows, email, organization_id) ==
    get_account_by_email(rows, email, organization_id)

\* account_service.update_account with a role_id and no password.
update_account(rows, email, organization_id, role_id) ==
    {IF a \in update_account_lookup(rows, email, organization_id)
         THEN [a EXCEPT !.role_id = role_id]
         ELSE a : a \in rows}

SnapshotInit ==
    /\ now = Epoch0
    /\ tz = UTC
    /\ jtiSeq = 1
    /\ issued = {}
    /\ ticks = 0
    /\ last = NoRequest
    /\ authz = NoCheck
    /\ accounts = SeedAccounts
    /\ directory = {<<a.organization_id, a.entity_id>> : a \in SeedAccounts}
    /\ req = IdleSlots
    /\ started = 0
    /\ roles = RoleTable
    /\ hashes = <<>>
    /\ checked = NoVerification
    /\ keys = ColdKeys
    /\ settings = DefaultSettings

\* POST /roles/{role_id}/permissions by an administrator, one permission.
AssignPermissions(role_id, permission) ==
    /\ last = NoRequest
    /\ started < MaxStarted
    /\ role_id \in DOMAIN roles
    /\ roles' = assign_permissions_to_role(roles, role_id, <<permission>>)
    /\ started' = started + 1
    /\ UNCHANGED <<now, tz, jtiSeq, issued, ticks, last, authz, accounts, directory, req, hashes, checked, keys, settings>>

\* DELETE /roles/{role_id}/permissions by an administrator, one permission.
RemovePermissions(role_id, permission) ==
    /\ last = NoRequest
    /\ started < MaxStarted
    /\ role_id \in DOMAIN roles
    /\ roles' = remove_permissions_from_role(roles, role_id, <<permission>>)
    /\ started' = started + 1
    /\ UNCHANGED <<now, tz, jtiSeq, issued, ticks, last, authz, accounts, directory, req, hashes, checked, keys, settings>>

\* PATCH /accounts/{email} with a role_id, by an administrator of the
\* account's organization.
UpdateAccountRole(email, organization_id, role_id) ==
    /\ last = NoRequest
    /\ started < MaxStarted
    /\ get_role(role_id)
    /\ get_account_by_email(accounts, email, organization_id) # {}
    /\ accounts' = update_account(accounts, email, organization_id, role_id)
    /\ started' = started + 1
    /\ UNCHANGED <<now, tz, jtiSeq, issued, ticks, last, authz, directory, req, roles, hashes, checked, keys, settings>>

\* DELETE /accounts/{email} by an administrator of the account's organization,
\* start to end: the row goes, the PATCH hasAccount=false is applied or lost.
RemoveAccount(email, organization_id, applied) ==
    /\ last = NoRequest
    /\ started < MaxStarted
    /\ \E db_account \in get_account_by_email(accounts, email, organization_id) :
          /\ accounts' = accounts \ {db_account}
          /\ directory' = IF applied
                              THEN directory \ {<<organization_id, db_account.entity_id>>}
                              ELSE directory
    /\ started' = started + 1
    /\ UNCHANGED <<now, tz, jtiSeq, issued, ticks, last, authz, req, roles, hashes, checked, keys, settings>>

SnapshotNext ==
    \/ Respond
    \/ \E email \in Emails : Login(email)
    \/ \E d \in Durations : Tick(d)
    \/ \E role_id \in RoleIds, permission \in PermissionNames :
          AssignPermissions(role_id, permission)
    \/ \E role_id \in RoleIds, permission \in PermissionNames :
          RemovePermissions(role_id, permission)
    \/ \E email \in Emails, organization_id \in Orgs, role_id \in RoleIds :
          UpdateAccountRole(email, organization_id, role_id)
    \/ \E email \in Emails, organization_id \in Orgs, applied \in BOOLEAN :
          RemoveAccount(email, organization_id, applied)
    \/ \E origin \in issued, required \in EndpointRequires :
          RequestWithToken(origin, "same", "none", required)

SnapshotSpec == SnapshotInit /\ [][SnapshotNext]_vars

(*====================== properties: claims snapshot =====================*)
\* C14: the session token a login issues for an account carries the account's
\* entity_id as sub, its organization_id, the one name of its role, and exactly
\* the permissions assigned to that role when the login is served.
C14_LoginClaimsMatchAccount ==
    [][\A email \in Emails :
          Login(email) =>
              \A r \in issued' : \E a \in accounts :
                  /\ a.email = email
                  /\ LET c == r.token.payload.claims
                         role == roles[a.role_id]
                     IN /\ c.sub = a.entity_id
                        /\ c.organizationId = a.organization_id
                        /\ c.roles = <<role.name>>
                        /\ Range(c.permissions) = Range(role.permissions)
                        /\ Len(c.permissions) = Cardinality(Range(role.permissions))
      ]_vars

\* A login served after the User role had been granted accounts:delete: the
\* token names the role User and carries that permission.
C14_Witness ==
    \E r \in issued :
        LET c == r.token.payload.claims
        IN /\ c.roles = <<"User">>
           /\ "accounts:delete" \in Range(c.permissions)
           /\ "accounts:delete" \in Range(roles["user"].permissions)

C16_ProvisionalTokenShape ==
    [][\A email \in Emails :
          Register(email) =>
              \A r \in issued' :
                  LET c == r.token.payload.claims
                  IN /\ c.organizationId = ""
                     /\ c.roles = <<>>
                     /\ c.permissions = RegistrationPermissions
                     /\ c.exp = c.iat + RegistrationMinutes * SecondsPerMinute
      ]_vars

(*--------------------------- password hashing ---------------------------*)
PasswordInit ==
    /\ now = Epoch0
    /\ tz = UTC
    /\ jtiSeq = 1
    /\ issued = {}
    /\ ticks = 0
    /\ last = NoRequest
    /\ authz = NoCheck
    /\ accounts = {}
    /\ directory = {}
    /\ req = IdleSlots
    /\ started = 0
    /\ roles = RoleTable
    /\ hashes = <<>>
    /\ checked = NoVerification
    /\ keys = ColdKeys
    /\ settings = DefaultSettings

Elsewhere == <<now, tz, jtiSeq, issued, ticks, last, authz, accounts, directory, req, started,
               roles, keys, settings>>

\* A call of hash_password(password): account creation, seeding.
HashPassword(password) ==
    /\ Len(hashes) < MaxHashed
    /\ \E drawn \in SaltBytes :
          hashes' = Append(hashes, [plain |-> password,
                                    hashed |-> hash_password(password, drawn)])
    /\ UNCHANGED checked
    /\ UNCHANGED Elsewhere

\* A call of verify_password(plain_password, hashed_password) against a stored hash:
\* authenticate_user at login.
VerifyPassword(plain_password, i) ==
    /\ i \in DOMAIN hashes
    /\ checked' = [plain |-> plain_password, hashed |-> hashes[i].hashed,
                   result |-> verify_password(plain_password, hashes[i].hashed)]
    /\ UNCHANGED hashes
    /\ UNCHANGED Elsewhere

PasswordNext ==
    \/ \E password \in Passwords : HashPassword(password)
    \/ \E password \in Passwords, i \in 1..MaxHashed : VerifyPassword(password, i)

PasswordSpec == PasswordInit /\ [][PasswordNext]_vars

(*====================== properties: password hashing ====================*)
\* Whether verify_password was last called with the plaintext and the hash of call i.
CheckedCall(i) == checked.plain = hashes[i].plain /\ checked.hashed = hashes[i].hashed

C18_DeleteNotFoundIsTerminal ==
    [][\A r \in Slots, caller \in Callers, email \in Emails :
          LET user == verify_and_decode_token(CallerToken(caller), now).user
          IN /\ req[r].op = "idle"
             /\ req'[r].op = "delete"
             /\ req'[r].caller = caller
             /\ DeleteBegin(r, caller, email)
             /\ permission_dependency(Authorization("bearer", CallerToken(caller)),
                                      DeleteRequires, now).status = 200
             /\ ~ \E a \in accounts :
                     a.email = email /\ a.organization_id = user.organizationId
             => /\ req'[r].pc = "done"
                /\ req'[r].status = 404
                /\ req'[r].patches = 0
                /\ ~ req'[r].deleted
                /\ accounts' = accounts
                /\ directory' = directory
      ]_vars

\* C18 witness: a delete was answered 404 without a directory call while a row
\* with the same email, of another organization, is in the table.
C18_Witness ==
    \E r \in Slots :
        /\ req[r].op = "delete"
        /\ req[r].pc = "done"
        /\ req[r].status = 404
        /\ req[r].patches = 0
        /\ \E a \in accounts : a.email = req[r].email

(*======================= properties: tenant isolation ===================*)
\* The organization named by the token of caller c ("" when it names none or
\* does not verify).
CallerOrganization(c) == verify_and_decode_token(CallerToken(c), now).user.organizationId

\* C19: every step of a create request whose session token names organization
\* O inserts only rows of organization O and sets the hasAccount flag only of
\* employees of organization O, whatever organization the request body names.
C19_CreateStaysInTokenOrganization ==
    [][\A r \in Slots :
          /\ req[r].op = "create"
          /\ CallerOrganization(req[r].caller) # ""
          /\ req'[r] # req[r]
          => /\ \A a \in accounts' \ accounts :
                   a.organization_id = CallerOrganization(req[r].caller)
             /\ \A d \in directory' \ directory :
                   d[1] = CallerOrganization(req[r].caller)
      ]_vars

(*====================== properties: concurrent creates ==================*)
\* C20: when a create request whose PATCH succeeded resumes and finds that a
\* concurrent request has inserted a row with its email and organization in
\* the meantime, it inserts nothing and ends with the already-exists failure
\* (409); the table never holds two rows with that email and organization.
C20_LoserGetsAlreadyExists ==
    [][\A r \in Slots :
          /\ req[r].op = "create"
          /\ req[r].pc = "patched"
          /\ req[r].result = "ok"
          /\ req'[r] # req[r]
          /\ \E a \in accounts : /\ a.email = req[r].email
                                 /\ a.organization_id = req[r].organization_id
          => /\ req'[r].status = 409
             /\ accounts' = accounts
             /\ Cardinality(get_account_by_email(accounts', req[r].email,
                                                 req[r].organization_id)) <= 1
      ]_vars

(*------------------------------ key loader ------------------------------*)
KeyInit ==
    /\ now = Epoch0
    /\ tz = UTC
    /\ jtiSeq = 1
    /\ issued = {}
    /\ ticks = 0
    /\ last = NoRequest
    /\ authz = NoCheck
    /\ accounts = SeedAccounts
    /\ directory = {}
    /\ req = IdleSlots
    /\ started = 0
    /\ roles = RoleTable
    /\ hashes = <<>>
    /\ checked = NoVerification
    /\ keys = ColdKeys
    /\ settings = DefaultSettings

NotKeys == <<now, tz, jtiSeq, issued, ticks, last, authz, accounts, directory, req, started,
             roles, hashes, checked, settings>>

\* Thread t calls load_private_key() or load_public_key() and tests the cache:
\* a cached key is returned at once, else the thread goes on to decode.
LoadEnter(t, k) ==
    /\ keys.thread[t] = Outside
    /\ keys.calls < MaxCalls
    /\ keys' = [keys EXCEPT !.calls = @ + 1,
                            !.thread[t] = IF keys.cache[k] = "None"
                                              THEN [pc |-> "loading", key |-> k,
                                                    decoded |-> FALSE]
                                              ELSE Outside]
    /\ UNCHANGED NotKeys

\* base64.b64decode and serialization.load_pem_..._key of the configured key.
LoadDecode(t) ==
    /\ keys.thread[t].pc = "loading"
    /\ ~ keys.thread[t].decoded
    /\ keys' = [keys EXCEPT !.decodes[keys.thread[t].key] = @ + 1,
                            !.thread[t].decoded = TRUE]
    /\ UNCHANGED NotKeys

\* The assignment to the cache, and the return.
LoadAssign(t) ==
    /\ keys.thread[t].pc = "loading"
    /\ keys.thread[t].decoded
    /\ keys' = [keys EXCEPT !.cache[keys.thread[t].key] = "key",
                            !.thread[t] = Outside]
    /\ UNCHANGED NotKeys

KeyNext ==
    \/ \E t \in Threads, k \in KeyNames : LoadEnter(t, k)
    \/ \E t \in Threads : LoadDecode(t)
    \/ \E t \in Threads : LoadAssign(t)

KeySpec == KeyInit /\ [][KeyNext]_vars

(*========================= properties: key loader =======================*)
\* C21: whatever the interleaving of the threads that call a key loader, each
\* configured key is decoded at most once in the life of the process.
C21_KeyDecodedAtMostOnce ==
    \A k \in KeyNames : keys.decodes[k] <= 1

(*================== properties: order of the delete steps ===============*)
\* C22: a delete request that finds its row removes that row in the step that
\* issues its PATCH, so the PATCH is under way only once the deletion is
\* committed; the PATCH addresses the organization and the employee of the row
\* that was removed and clears that employee's flag when the directory applies
\* it; the request issues that one PATCH and no other.
C22_DeleteThenOnePatch ==
    [][\A r \in Slots :
          /\ (req[r].op = "idle" /\ req'[r].op = "delete" /\ req'[r].pc = "patching")
                => /\ \E row \in accounts :
                         /\ accounts' = accounts \ {row}
                         /\ row.email = req'[r].email
                         /\ req'[r].organization_id = row.organization_id
                         /\ req'[r].entity_id = row.entity_id
                   /\ req'[r].patches = 1
                   /\ directory' = directory
          /\ (req[r].op = "delete" /\ req'[r] # req[r])
                => /\ req'[r].op = "delete" => /\ req'[r].patches = req[r].patches
                                               /\ req'[r].entity_id = req[r].entity_id
                                               /\ req'[r].organization_id = req[r].organization_id
                   /\ accounts' = accounts
                   /\ req[r].pc # "patching" => directory' = directory
          /\ (req[r].op = "delete" /\ DirectoryPatch(r, TRUE, "ok"))
                => /\ req[r].deleted
                   /\ req[r].patches = 1
                   /\ directory' = directory \ {<<req[r].organization_id, req[r].entity_id>>}
          /\ (req[r].op = "delete" /\ req[r].pc = "done")
                => req[r].patches = IF req[r].deleted THEN 1 ELSE 0
      ]_vars

\* C22 witness: a delete has removed its row, its one PATCH was applied and
\* cleared the flag that an earlier create had set for that employee.
C22_Witness ==
    \E r \in Slots :
        /\ req[r].op = "delete"
        /\ req[r].pc = "done"
        /\ req[r].deleted
        /\ req[r].patches = 1
        /\ req[r].result = "ok"
        /\ \E q \in Slots : req[q].op = "create" /\ req[q].inserted
                               /\ req[q].entity_id = req[r].entity_id
                               /\ req[q].organization_id = req[r].organization_id
        /\ <<req[r].organization_id, req[r].entity_id>> \notin directory

(*----------------------------- cancellation -----------------------------*)
\* The task of request r is cancelled while it awaits update_employee_has_account:
\* CancelledError is raised at the await and passes every 'except Exception'.
\* sent tells whether the PATCH had left the client by then, applied whether the
\* Organizations service stored it.  Nothing runs after the await and no response
\* is sent.
Cancel(r, sent, applied) ==
    /\ req[r].pc = "patching"
    /\ applied => sent
    /\ directory' =
          IF ~applied THEN directory
          ELSE IF req[r].op = "create"
              THEN directory \cup {employee_url(req[r].organization_id, req[r].entity_id)}
              ELSE directory \ {employee_url(req[r].organization_id, req[r].entity_id)}
    /\ req' = [req EXCEPT ![r].pc = "done",
                          ![r].result = IF sent THEN "cancelled, sent" ELSE "cancelled, unsent"]
    /\ UNCHANGED <<accounts, started>>
    /\ UNCHANGED Unused

CancelNext ==
    \/ \E r \in Slots, body \in Bodies : CreateBegin(r, "admin", body)
    \/ \E r \in Slots, email \in Emails : DeleteBegin(r, "admin", email)
    \/ \E r \in Slots, applied \in BOOLEAN, result \in {"ok", "error"} :
          DirectoryPatch(r, applied, result)
    \/ \E r \in Slots : CreateResume(r)
    \/ \E r \in Slots : DeleteResume(r)
    \/ \E r \in Slots : Close(r)
    \/ \E r \in Slots, sent \in BOOLEAN, applied \in BOOLEAN : Cancel(r, sent, applied)

CancelSpec == Init /\ [][CancelNext]_vars

(*======================== properties: cancellation ======================*)
\* C23: a delete request cancelled after its row was removed does not end with
\* its PATCH never sent: the PATCH has left the client, or is kept for a later
\* attempt (the service keeps no such queue).
C23_CancelledDeleteStillPatches ==
    \A r \in Slots :
        req[r].op = "delete" /\ req[r].deleted /\ req[r].pc = "done"
            => req[r].result # "cancelled, unsent"

(*==================== properties: insert after the PATCH ================*)
\* C24: when a create request resumes after a successful PATCH and its insert
\* fails (a row with its email is in the table by then), the request issues no
\* further PATCH and changes neither the directory nor the table: the flag the
\* PATCH set stays as it is, no row is written for the draft, and the request
\* ends with a failure status.
C24_NoCompensationOnInsertFailure ==
    [][\A r \in Slots :
          /\ req[r].op = "create"
          /\ req[r].pc = "patched"
          /\ req[r].result = "ok"
          /\ req'[r] # req[r]
          /\ \E a \in accounts : a.email = req[r].email
          => /\ accounts' = accounts
             /\ directory' = directory
             /\ req'[r].pc = "done"
             /\ req'[r].patches = 1
             /\ ~ req'[r].inserted
             /\ req'[r].status >= 400
      ]_vars

\* C24 witness: a create ended with a failure after its PATCH succeeded; the flag
\* of its employee is set in the directory while no row of that employee exists.
C24_Witness ==
    \E r \in Slots :
        /\ req[r].op = "create"
        /\ req[r].pc = "done"
        /\ req[r].result = "ok"
        /\ req[r].status = 500
        /\ ~ req[r].inserted
        /\ <<req[r].organization_id, req[r].entity_id>> \in directory
        /\ ~ \E a \in accounts : a.entity_id = req[r].entity_id

(*------------------------- retrying a creation --------------------------*)
\* The draft a create request carried.
Draft(request) == [email |-> request.email, entity_id |-> request.entity_id,
                   organization_id |-> request.organization_id, role_id |-> request.role_id]

\* A client that sends its creations one after the other on worker 1 and, when
\* one of them fails on the directory call (503), sends the same creation again
\* at once: the failed request stays on worker 1 while its repetition runs on
\* worker 2, so that nothing comes between the two.
FailedOnDirectory(request) ==
    request.op = "create" /\ request.pc = "done" /\ request.status = 503

FirstAttempt(caller, body) ==
    /\ req[2] = Idle
    /\ CreateBegin(1, caller, body)

Repeat ==
    /\ FailedOnDirectory(req[1])
    /\ CreateBegin(2, req[1].caller, Draft(req[1]))

Forget ==
    /\ req[2] = Idle
    /\ Close(1)

RetryNext ==
    \/ \E caller \in Callers, body \in Bodies : FirstAttempt(caller, body)
    \/ Repeat
    \/ Forget
    \/ \E r \in Slots, applied \in BOOLEAN, result \in {"ok", "error"} :
          DirectoryPatch(r, applied, result)
    \/ \E r \in Slots : CreateResume(r)

RetrySpec == Init /\ [][RetryNext]_vars

(*===================== properties: retrying a creation ==================*)
\* C25: the repetition of a creation that failed on the directory call, sent
\* with nothing in between, succeeds (201) unless its own directory call fails,
\* and leaves exactly one row for the draft.
C25_RetryAfterSyncFailureSucceeds ==
    /\ req[2].op = "create"
    /\ req[2].pc = "done"
    /\ req[2].result # "error"
    => /\ req[2].status = 201
       /\ Cardinality(get_account_by_email(accounts, req[2].email,
                                           req[2].organization_id)) = 1

(*=================== properties: order of the verifier ==================*)
\* C26: a token with several defects fails with the kind of the earliest step in
\* the order signature, expiry, issuer and audience, required claims: a correctly
\* signed token that has expired and lacks a required claim fails as expired, and
\* one that is not expired, names a wrong issuer and lacks a required claim fails
\* as bad issuer.
C26_EarliestDefectReported ==
    (/\ BearerRequest
     /\ last.tamper = "none"
     /\ last.variant \in {"no_jti", "no_jti_bad_iss"}
     /\ Claims.iat <= last.at)
        => IF Claims.exp <= last.at
               THEN Verdict.error = "ExpiredSignatureError"
           ELSE IF Claims.iss # jwt_issuer
               THEN Verdict.error = "InvalidIssuerError"
           ELSE TRUE

(*----------------------- reading and updating accounts ------------------*)
ReadRequires == <<"accounts:read">>
UpdateRequires == <<"accounts:update">>

\* Two organizations with one account each; as seeded, the Admin role holds every
\* accounts permission.
TenantAccounts == {Row("e1", "n1", "o1", "admin"), Row("e2", "n2", "o2", "user")}

TenantInit ==
    /\ now = Epoch0
    /\ tz = UTC
    /\ jtiSeq = 1
    /\ issued = {}
    /\ ticks = 0
    /\ last = NoRequest
    /\ authz = NoCheck
    /\ accounts = TenantAccounts
    /\ directory = {<<a.organization_id, a.entity_id>> : a \in TenantAccounts}
    /\ req = [r \in Slots |-> Idle]
    /\ started = 0
    /\ roles = assign_permissions_to_role(RoleTable, "admin", UpdateRequires)
    /\ hashes = <<>>
    /\ checked = NoVerification
    /\ keys = ColdKeys
    /\ settings = DefaultSettings

\* The answer of a request that ends in the step that receives it.
Answered(r, op, caller, email, role_id, status, rows) ==
    req' = [req EXCEPT ![r] = [Idle EXCEPT !.op = op, !.pc = "done", !.caller = caller,
                                           !.email = email, !.role_id = role_id,
                                           !.status = status,
                                           !.touched = TRUE, !.returned = rows]]

\* GET /accounts: the accounts of the caller's organization (all pages).
ListAccounts(r, caller) ==
    LET gate == permission_dependency(Authorization("bearer", CallerToken(caller)),
                                      ReadRequires, now)
        organization_id == gate.user.organizationId
    IN /\ FreeSlot(r)
       /\ started < MaxStarted
       /\ started' = started + 1
       /\ IF gate.status # 200
              THEN Answered(r, "list", caller, "", "", gate.status, {})
              ELSE Answered(r, "list", caller, "", "", 200,
                            {a \in accounts : a.organization_id = organization_id})
       /\ UNCHANGED <<accounts, directory>>
       /\ UNCHANGED Unused

\* GET /accounts/{email}
GetAccount(r, caller, email) ==
    LET gate == permission_dependency(Authorization("bearer", CallerToken(caller)),
                                      ReadRequires, now)
        db_account == get_account_by_email(accounts, email, gate.user.organizationId)
    IN /\ FreeSlot(r)
       /\ started < MaxStarted
       /\ started' = started + 1
       /\ IF gate.status # 200
              THEN Answered(r, "get", caller, email, "", gate.status, {})
          ELSE IF db_account = {}
              THEN Answered(r, "get", caller, email, "", 404, {})
          ELSE Answered(r, "get", caller, email, "", 200, db_account)
       /\ UNCHANGED <<accounts, directory>>
       /\ UNCHANGED Unused

\* PATCH /accounts/{email} with a role_id.
UpdateAccount(r, caller, email, role_id) ==
    LET gate == permission_dependency(Authorization("bearer", CallerToken(caller)),
                                      UpdateRequires, now)
        organization_id == gate.user.organizationId
        updated == update_account(accounts, email, organization_id, role_id)
    IN /\ FreeSlot(r)
       /\ started < MaxStarted
       /\ started' = started + 1
       /\ IF gate.status # 200
              THEN Answered(r, "update", caller, email, role_id, gate.status, {}) /\ UNCHANGED accounts
          ELSE IF ~ get_role(role_id)
              THEN Answered(r, "update", caller, email, role_id, 422, {}) /\ UNCHANGED accounts
          ELSE IF update_account_lookup(accounts, email, organization_id) = {}
              THEN Answered(r, "update", caller, email, role_id, 404, {}) /\ UNCHANGED accounts
          ELSE /\ accounts' = updated
               /\ Answered(r, "update", caller, email, role_id, 200,
                           update_account_lookup(updated, email, organization_id))
       /\ UNCHANGED directory
       /\ UNCHANGED Unused

TenantNext ==
    \/ \E r \in Slots, caller \in Callers : ListAccounts(r, caller)
    \/ \E r \in Slots, caller \in Callers, email \in Emails : GetAccount(r, caller, email)
    \/ \E r \in Slots, caller \in Callers, email \in Emails, role_id \in RoleIds \cup {"none"} :
          UpdateAccount(r, caller, email, role_id)
    \/ \E r \in Slots, caller \in Callers, email \in Emails : DeleteBegin(r, caller, email)
    \/ \E r \in Slots, applied \in BOOLEAN, result \in {"ok", "error"} :
          DirectoryPatch(r, applied, result)
    \/ \E r \in Slots : DeleteResume(r)
    \/ \E r \in Slots : Close(r)

TenantSpec == TenantInit /\ [][TenantNext]_vars

(*================= properties: reads, updates and deletes ===============*)
\* The permissions the endpoint of a request requires.
Requires(op) ==
    CASE op = "update" -> UpdateRequires
      [] op = "delete" -> DeleteRequires
      [] OTHER -> ReadRequires

\* C27: a step of a get, list, update or delete request whose session token
\* names organization O returns, changes and removes only rows of organization
\* O; a get, update or delete that holds the endpoint's permission, names an
\* existing role if it is an update, and names an email that has no row in O
\* answers 404 at once, changes no row and no directory flag and issues no PATCH.
C27_StaysInTokenOrganization ==
    [][\A r \in Slots :
          LET me == req'[r]
              O == CallerOrganization(me.caller)
              gate == permission_dependency(Authorization("bearer", CallerToken(me.caller)),
                                            Requires(me.op), now)
          IN /\ req'[r] # req[r]
             /\ me.op \in {"get", "list", "update", "delete"}
             /\ O # ""
             => /\ \A a \in me.returned : a.organization_id = O
                /\ \A a \in (accounts \ accounts') \cup (accounts' \ accounts) :
                      a.organization_id = O
                /\ (/\ req[r].op = "idle"
                    /\ me.op # "list"
                    /\ gate.status = 200
                    /\ me.op = "update" => get_role(me.role_id)
                    /\ ~ \E a \in accounts : a.email = me.email /\ a.organization_id = O)
                      => /\ me.status = 404
                         /\ me.pc = "done"
                         /\ me.patches = 0
                         /\ accounts' = accounts
                         /\ directory' = directory
      ]_vars

\* C27 witness: an update and a delete by an administrator of o1, addressed to the
\* email of the account of o2, were both answered 404 and that account is as it was.
C27_Witness ==
    /\ \E r \in Slots : /\ req[r].op = "update" /\ req[r].caller = "admin"
                        /\ req[r].email = "e2" /\ req[r].status = 404
    /\ \E r \in Slots : /\ req[r].op = "delete" /\ req[r].caller = "admin"
                        /\ req[r].email = "e2" /\ req[r].status = 404
    /\ Row("e2", "n2", "o2", "user") \in accounts
    /\ <<"o2", "n2">> \in directory

(*================ properties: creation refused at the boundary ==========*)
\* C28: a create request that holds the permission and is refused by a check of
\* the endpoint (403: provisional token for an organization that has accounts;
\* 409: the email exists in the organization; 422: unknown role) is answered in
\* the step that receives it, issues no PATCH and inserts no row; nothing but
\* sending the response follows.  For every draft the outcome is stated first
\* and the refused step second (a request that goes on to the PATCH carries its
\* draft, so only that draft can have begun it).
C28_RefusedCreateHasNoEffect ==
    [][\A r \in Slots :
          /\ \A caller \in Callers :
                LET gate == permission_dependency(
                                Authorization("bearer", CallerToken(caller)),
                                CreateRequires, now)
                    provisional == gate.user.organizationId = ""
                IN (/\ req[r].op = "idle"
                    /\ req'[r].op = "create"
                    /\ req'[r].caller = caller
                    /\ gate.status = 200)
                   => \A body \in Bodies :
                        LET O == IF provisional THEN body.organization_id
                                                ELSE gate.user.organizationId
                            has_accounts == \E a \in accounts : a.organization_id = O
                            exists == \E a \in accounts :
                                          a.email = body.email /\ a.organization_id = O
                            no_role == body.role_id \notin DOMAIN roles
                        IN \/ /\ req'[r].status = IF provisional /\ has_accounts THEN 403
                                                  ELSE IF exists THEN 409
                                                  ELSE 422
                              /\ req'[r].pc = "done"
                              /\ req'[r].patches = 0
                              /\ ~ req'[r].inserted
                              /\ accounts' = accounts
                              /\ directory' = directory
                           \/ ~ (/\ (provisional /\ has_accounts) \/ exists \/ no_role
                                 /\ req'[r].pc = "patching" => body = Draft(req'[r])
                                 /\ CreateBegin(r, caller, body))
          /\ (/\ req[r].op = "create"
              /\ req[r].pc = "done"
              /\ req[r].patches = 0
              /\ req'[r] # req[r])
                => req'[r] = Idle /\ accounts' = accounts /\ directory' = directory
      ]_vars

\* C28 witness: one create was refused with 409 and one, sent with a provisional
\* token, with 403; neither has issued a PATCH.
C28_Witness ==
    \E r, q \in Slots :
        /\ req[r].op = "create" /\ req[r].touched /\ req[r].status = 409
        /\ req[r].patches = 0 /\ req[r].pc = "done"
        /\ req[q].op = "create" /\ req[q].touched /\ req[q].status = 403
        /\ req[q].caller = "register"
        /\ req[q].patches = 0 /\ req[q].pc = "done"

(*------------------------- progress of requests -------------------------*)
\* Creations and deletions by an administrator of o1, within o1.
OwnBodies == {body \in Bodies : body.organization_id = "o1" /\ body.role_id = "admin"}

\* The await of the PATCH ends for request r: with a response, an HTTP or network
\* error, or the client's timeout.
PatchEnds(r) ==
    \E applied \in BOOLEAN, result \in {"ok", "error"} : DirectoryPatch(r, applied, result)

LiveNext ==
    \/ \E r \in Slots, body \in OwnBodies : CreateBegin(r, "admin", body)
    \/ \E r \in Slots, email \in Emails : DeleteBegin(r, "admin", email)
    \/ \E r \in Slots : PatchEnds(r)
    \/ \E r \in Slots : CreateResume(r)
    \/ \E r \in Slots : DeleteResume(r)
    \/ \E r \in Slots : Close(r)

\* httpx.AsyncClient(timeout=10.0) ends every await of the PATCH, whether or not
\* the service answers; the event loop resumes a coroutine whose await has ended.
\* Nothing obliges the service to answer: a PATCH may always end as "error".
LiveSpec ==
    /\ Init
    /\ [][LiveNext]_vars
    /\ \A r \in Slots : /\ WF_vars(PatchEnds(r))
                        /\ WF_vars(CreateResume(r))
                        /\ WF_vars(DeleteResume(r))

(*===================== properties: progress of requests =================*)
\* C29: every create and delete request that waits for the Organizations service
\* is eventually answered, also when the service never answers; a request whose
\* PATCH ended as a failure is answered with 503 if it is a create, which has
\* inserted nothing, and with 200 if it is a delete.
C29_RequestsComplete ==
    /\ \A r \in Slots : (req[r].pc = "patching") ~> (req[r].pc = "done")
    /\ [](\A r \in Slots :
             req[r].pc = "done" /\ req[r].result = "error"
                 => /\ req[r].op = "create" => req[r].status = 503 /\ ~ req[r].inserted
                    /\ req[r].op = "delete" => req[r].status = 200)

\* C29 witness: a create and a delete whose PATCH got no answer were both
\* answered, the create with 503 and the delete with 200.
C29_Witness ==
    \E r, q \in Slots :
        /\ req[r].op = "create" /\ req[r].pc = "done"
        /\ req[r].result = "error" /\ req[r].status = 503
        /\ req[q].op = "delete" /\ req[q].pc = "done"
        /\ req[q].result = "error" /\ req[q].status = 200

(*--------------------------- configured lifetime ------------------------*)
\* Values of JWT_EXPIRATION_DAYS that Settings accepts: the field is a plain int
\* with no bound.
ExpirationDays == {0 - 1, 0, 1, jwt_expiration_days}

\* A process started under any accepted configuration, in UTC.
ConfigInit ==
    /\ now = Epoch0
    /\ tz = UTC
    /\ jtiSeq = 1
    /\ issued = {}
    /\ ticks = 0
    /\ last = NoRequest
    /\ authz = NoCheck
    /\ accounts = SeedAccounts
    /\ directory = {}
    /\ req = IdleSlots
    /\ started = 0
    /\ roles = RoleTable
    /\ hashes = <<>>
    /\ checked = NoVerification
    /\ keys = ColdKeys
    /\ settings \in {[jwt_expiration_days |-> d] : d \in ExpirationDays}

ConfigNext ==
    \/ \E email \in Emails : Login(email)
    \/ \E email \in Emails : Register(email)
    \/ \E d \in Durations : Tick(d)
    \/ \E origin \in issued, required \in EndpointRequires :
          RequestWithToken(origin, "same", "none", required)
    \/ Respond

ConfigSpec == ConfigInit /\ [][ConfigNext]_vars

(*===================== properties: token lifetime =======================*)
\* C30: every token issued by login or by register expires after it was issued,
\* whatever lifetime in days the configuration carries.
C30_ExpiresAfterIssued ==
    \A r \in issued :
        r.token.payload.claims.exp > r.token.payload.claims.iat

====
